---- MODULE Spec2Model ----
(***************************************************************************)
(* The event pipeline of seedcore-hotel-simulator:                         *)
(*   EventEmitterService.emitHotelEvent  (services/eventEmitter.ts)        *)
(*   KafkaPublisherService               (services/kafkaPublisher.ts)      *)
(*   POST /api/events and the Kafka producer (server/index.js)             *)
(*                                                                         *)
(* The browser runs one event loop, so every handler of the publisher is   *)
(* one atomic action; the only suspension points are the two awaits of     *)
(* flush() (the fetch and response.json()), which split a flush into its   *)
(* start and its completion steps.  setInterval callbacks and fetch        *)
(* rejections (network error, 5 s timeout) are scheduled by the browser:   *)
(* the model lets them happen at any moment.  The clock `now` is what      *)
(* Date.now() returns; the program reads it for the timestamp of an        *)
(* envelope and for the deduplication window only.                         *)
(***************************************************************************)
EXTENDS Integers, Sequences, FiniteSets, TLC

VARIABLES
    eventQueue,           \* KafkaPublisherService.eventQueue
    flushInterval,        \* TRUE iff KafkaPublisherService.flushInterval holds a timer
    consecutiveFailures,  \* KafkaPublisherService.consecutiveFailures
    isCircuitOpen,        \* KafkaPublisherService.isCircuitOpen
    isAiEnabled,          \* KafkaPublisherService.isAiEnabled
    recent,               \* window["recent_" + key]: time of the last accepted publish, 0 = undefined
    now,                  \* Date.now()
    inflight,             \* the flush() calls suspended at an await, oldest first
    emitted,              \* number of envelopes emitHotelEvent has built so far
    CONFLUENT_ENABLED,    \* server: the CONFLUENT_ENABLED flag
    kafkaProducer,        \* server: TRUE iff kafkaProducer is not null
    brokerLog,            \* the messages kafkaProducer.send has accepted, in order
    request,              \* the body of the last request posted to the endpoint directly
    response,             \* the response to that request
    last,                 \* the last handler that ran: its name, its envelope, the circuit before it,
                          \* the lines it wrote to the console
    streak,               \* failed flush completions since the last successful one or reset
    accepted,             \* per deduplication key: when publish() last enqueued an envelope, 0 = never
    resetAt,              \* value of `emitted` when resetCircuit() last closed the circuit, -1 = never
    callbacks,            \* EventEmitterService.callbacks, each slot tagged with the subscribe() call that pushed it
    closures,             \* closures[r]: the callback captured by the function the r-th subscribe() returned
    registered,           \* the registrations by the contract of subscribe(): r leaves when closure r is called
    dispatch,             \* the forEach of the running emitHotelEvent
    delivered,            \* the calls cb(fullEvent) the current or last dispatch has made, in order
    errorLog,             \* the callbacks whose exception that dispatch caught and logged
    userId                \* EventEmitterService.userId

clientVars == <<eventQueue, flushInterval, consecutiveFailures, isCircuitOpen,
                isAiEnabled, recent, now, inflight, emitted>>
serverVars == <<CONFLUENT_ENABLED, kafkaProducer, brokerLog, request, response>>
historyVars == <<last, streak, accepted, resetAt>>
emitterVars == <<callbacks, closures, registered, dispatch, delivered, errorLog, userId>>
vars == <<clientVars, serverVars, historyVars, emitterVars>>

----------------------------------------------------------------------------
(* Bounds of the model *)

MaxEmit == 2        \* envelopes emitted in one run
MaxTime == 1001     \* the clock stops here
MaxBroker == 2      \* messages the broker log holds
MaxBatch == 2       \* events in a request posted to the ingress directly
MaxBurst == 101     \* envelopes emitted in one burst
MaxSubs == 3        \* subscribe() calls in one run
MaxLongBurst == 200 \* envelopes emitted in one long burst

(* Program constants *)

maxFailures == 3
HighWaterMark == 50
RequeueLimit == 100
DedupeWindow == 1000

----------------------------------------------------------------------------
(* Event model *)

ALLOWED_EVENT_TYPES ==
    { "ui.hotspot.entered", "ui.hotspot.left", "ui.voice.transcript.final",
      "ui.button.clicked", "ui.keyboard.pressed",
      "sim.room.occupancy.changed", "sim.agent.state.changed" }

SERVER_ALLOWED_EVENT_TYPES ==
    { "ui.hotspot.entered", "ui.hotspot.left", "ui.voice.transcript.final",
      "ui.button.clicked", "ui.keyboard.pressed",
      "sim.room.occupancy.changed", "sim.agent.state.changed" }

BOOT_ALLOWED_UI == { "ui.button.clicked", "ui.keyboard.pressed" }

SessionId == "session_1"

\* the value of a property that is not set
Undefined == "undefined"

\* What the callers of emitHotelEvent pass: source, type and payload.  source is
\* the closed union "ui" | "sim" of SeedcoreHotelEvent, type is any string.
\* A payload is named by its serialization (JSON.stringify(payload)).
Occurrences ==
    { [source |-> "ui",  type |-> "ui.button.clicked",       payload |-> "{buttonId:director-mode}"],
      [source |-> "ui",  type |-> "ui.button.clicked",       payload |-> "{buttonId:lobby-choice}"],
      [source |-> "ui",  type |-> "ui.hotspot.entered",      payload |-> "{hotspotId:desk}"],
      [source |-> "ui",  type |-> "ui.mouse.moved",          payload |-> "{x:1}"],
      [source |-> "sim", type |-> "ui.button.clicked",       payload |-> "{buttonId:director-mode}"] }

\* The envelope emitHotelEvent builds.  eventId is generateUUID(), unique per
\* call: the model numbers the envelopes in emission order.
Envelope(o, n, t) ==
    [ eventId |-> n, timestamp |-> t, sessionId |-> SessionId, userId |-> userId,
      source |-> o.source, type |-> o.type, payload |-> o.payload ]

NoEnvelope ==
    [ eventId |-> 0, timestamp |-> 0, sessionId |-> "", userId |-> "",
      source |-> "", type |-> "", payload |-> "" ]

Done(op) == [op |-> op, env |-> NoEnvelope, open |-> isCircuitOpen, log |-> <<>>]
DoneEnv(op, e) == [op |-> op, env |-> e, open |-> isCircuitOpen, log |-> <<>>]
DoneLog(op, lines) == [op |-> op, env |-> NoEnvelope, open |-> isCircuitOpen, log |-> lines]

----------------------------------------------------------------------------
(* KafkaPublisherService *)

\* const eventKey = `${event.type}:${JSON.stringify(event.payload)}`
DedupeKey(e) == <<e.type, e.payload>>

DedupeKeys == { DedupeKey(o) : o \in Occurrences }

\* mutant: the safety net blocks sim events only
BootBlocked_SimOnly(e) == ~isAiEnabled /\ e.source = "sim"

\* publish(), the boot-screen safety net
BootBlocked(e) ==
    /\ ~isAiEnabled
    /\ \/ e.source = "sim"
       \/ e.source = "ui" /\ e.type \notin BOOT_ALLOWED_UI

\* mutant: every ui event passes the allow-list filter
AllowListed_AnyUi(e) == e.type \in ALLOWED_EVENT_TYPES \/ e.source = "ui"

\* publish(), the allow-list filter
AllowListed(e) == e.type \in ALLOWED_EVENT_TYPES

\* mutant: the window is closed at its upper end
IsDuplicate_Inclusive(e) ==
    LET lastEmitted == recent[DedupeKey(e)]
    IN  lastEmitted # 0 /\ (now - lastEmitted) <= DedupeWindow

\* mutant: an event published in the same millisecond is not a duplicate
IsDuplicate_LaterOnly(e) ==
    LET lastEmitted == recent[DedupeKey(e)]
    IN  lastEmitted # 0 /\ now > lastEmitted /\ (now - lastEmitted) < DedupeWindow

\* publish(), the deduplication test
IsDuplicate(e) ==
    LET lastEmitted == recent[DedupeKey(e)]
    IN  lastEmitted # 0 /\ (now - lastEmitted) < DedupeWindow

\* mutant: publish() does not look at the circuit
PublishAccepts_NoCircuit(e) ==
    /\ ~BootBlocked(e)
    /\ AllowListed(e)
    /\ ~IsDuplicate(e)

\* publish() reaches eventQueue.push(event)
PublishAccepts(e) ==
    /\ ~isCircuitOpen
    /\ ~BootBlocked(e)
    /\ AllowListed(e)
    /\ ~IsDuplicate(e)

\* A flush() call suspended at an await: its snapshot of the queue and where
\* the call is.
\*   "sent"  at `await fetch(...)`, the request is on its way to the endpoint
\*   "r200", "r400", "r500"  at `await fetch(...)`, the endpoint has answered
\*   "json"  the success branch has run, the call is at `await response.json()`
\* openAtStart records the circuit when fetch was called.
NewFlush(q) == [events |-> q, stage |-> "sent", openAtStart |-> isCircuitOpen]

\* mutant: flush() sends the queue without clearing it
FlushQueue_KeepsQueue(q) == q

\* flush(), up to the fetch: the queue it leaves, called with the queue q
FlushQueue(q) == IF Len(q) = 0 THEN q ELSE <<>>

\* flush(), up to the fetch: the suspended calls it leaves
FlushInflight(q) ==
    IF Len(q) = 0 \/ isCircuitOpen THEN inflight
    ELSE Append(inflight, NewFlush(q))

\* mutant: the timer flushes a full queue only
TimerGuard_OnlyFull == Len(eventQueue) >= HighWaterMark /\ ~isCircuitOpen

\* the guard of the setInterval callback
TimerGuard == Len(eventQueue) > 0 /\ ~isCircuitOpen

\* the guard of the flush in destroy()
DestroyGuard == Len(eventQueue) > 0 /\ ~isCircuitOpen

\* mutant: the immediate flush starts one envelope late
HighWaterGuard_Strict(q) == Len(q) > HighWaterMark /\ ~isCircuitOpen

\* the guard of the immediate flush in publish(), for the queue after the push
HighWaterGuard(q) == Len(q) >= HighWaterMark /\ ~isCircuitOpen

\* mutant: a failed batch is put back at the tail of the queue
Requeue_AtTail(q, events) == IF Len(q) < RequeueLimit THEN q \o events ELSE q

\* if (this.eventQueue.length < 100) this.eventQueue.unshift(...events)
Requeue(q, events) == IF Len(q) < RequeueLimit THEN events \o q ELSE q

\* mutant: the circuit opens one failure late
OpensCircuit_OffByOne(failures) == failures > maxFailures

\* this.consecutiveFailures >= this.maxFailures, for the incremented counter
OpensCircuit(failures) == failures >= maxFailures

\* What the failure path of flush() writes to the console, for the incremented
\* counter: first is the warning of the branch ("Failed to publish events" in
\* the non-OK branch, "Connection error" in the catch block)
FailureLog(first, failures) ==
    (IF failures = 1 THEN <<first>> ELSE <<>>)
    \o (IF OpensCircuit(failures) THEN <<"Circuit opened">> ELSE <<>>)

\* What the success branch of flush() writes to the console
SuccessLog ==
    IF consecutiveFailures > 0 /\ isCircuitOpen THEN <<"Circuit closed">> ELSE <<>>

RemoveAt(s, i) == SubSeq(s, 1, i - 1) \o SubSeq(s, i + 1, Len(s))

\* The failure path of flush(): the non-OK branch and the catch block do the same
FailureBranch(events) ==
    /\ consecutiveFailures' = consecutiveFailures + 1
    /\ IF OpensCircuit(consecutiveFailures + 1)
       THEN /\ isCircuitOpen' = TRUE
            /\ flushInterval' = FALSE
            /\ eventQueue' = <<>>
       ELSE /\ eventQueue' = Requeue(eventQueue, events)
            /\ UNCHANGED <<isCircuitOpen, flushInterval>>

\* mutant: a success clears the counter but leaves an OPEN circuit open
SuccessBranch_KeepsCircuit ==
    /\ eventQueue' = eventQueue
    /\ IF consecutiveFailures > 0
       THEN consecutiveFailures' = 0 /\ UNCHANGED <<isCircuitOpen, flushInterval>>
       ELSE UNCHANGED <<consecutiveFailures, isCircuitOpen, flushInterval>>

\* The success branch of flush(), up to `await response.json()`
SuccessBranch ==
    /\ eventQueue' = eventQueue
    /\ IF consecutiveFailures > 0
       THEN /\ consecutiveFailures' = 0
            /\ IF isCircuitOpen
               THEN isCircuitOpen' = FALSE /\ flushInterval' = TRUE
               ELSE UNCHANGED <<isCircuitOpen, flushInterval>>
       ELSE UNCHANGED <<consecutiveFailures, isCircuitOpen, flushInterval>>

\* mutant: publish() pushes the event twice
Publish_Twice(e) ==
    IF PublishAccepts(e)
    THEN /\ recent' = [recent EXCEPT ![DedupeKey(e)] = now]
         /\ eventQueue' = Append(Append(eventQueue, e), e)
         /\ inflight' = inflight
    ELSE UNCHANGED <<recent, eventQueue, inflight>>

\* publish(e)
Publish(e) ==
    LET q == Append(eventQueue, e)
    IN  IF PublishAccepts(e)
        THEN /\ recent' = [recent EXCEPT ![DedupeKey(e)] = now]
             /\ IF HighWaterGuard(q)
                THEN eventQueue' = FlushQueue(q) /\ inflight' = FlushInflight(q)
                ELSE eventQueue' = q /\ inflight' = inflight
        ELSE UNCHANGED <<recent, eventQueue, inflight>>

\* emitHotelEvent(o) with the tracking hook subscribed: the envelope is built
\* and handed to publish()
EmitHotelEvent(o) ==
    LET e == Envelope(o, emitted + 1, now)
    IN  /\ emitted' = emitted + 1
        /\ Publish(e)
        /\ last' = DoneEnv("publish", e)
        /\ accepted' = IF eventQueue' # eventQueue \/ inflight' # inflight
                       THEN [accepted EXCEPT ![DedupeKey(e)] = now]
                       ELSE accepted
        /\ UNCHANGED <<flushInterval, consecutiveFailures, isCircuitOpen,
                       isAiEnabled, now, serverVars, streak, resetAt>>
        /\ UNCHANGED emitterVars

\* one of the emissions of a run
Emit(o) == emitted < MaxEmit /\ EmitHotelEvent(o)

\* mutant: enabling the AI also closes the circuit
SetAiEnabled_Resets(b) ==
    /\ isAiEnabled # b
    /\ isAiEnabled' = b
    /\ IF b /\ isCircuitOpen
       THEN isCircuitOpen' = FALSE /\ consecutiveFailures' = 0 /\ flushInterval' = TRUE
       ELSE UNCHANGED <<isCircuitOpen, consecutiveFailures, flushInterval>>
    /\ last' = [op |-> "setAiEnabled", env |-> NoEnvelope, open |-> isCircuitOpen,
              log |-> <<>>]
    /\ UNCHANGED <<eventQueue, recent, now, inflight, emitted,
                   CONFLUENT_ENABLED, kafkaProducer, brokerLog, request, response,
                   streak, accepted, resetAt>>
    /\ UNCHANGED emitterVars

SetAiEnabled(b) ==
    /\ isAiEnabled # b
    /\ isAiEnabled' = b
    /\ last' = Done("setAiEnabled")
    /\ UNCHANGED <<eventQueue, flushInterval, consecutiveFailures, isCircuitOpen,
                   recent, now, inflight, emitted, serverVars, streak, accepted, resetAt>>
    /\ UNCHANGED emitterVars

\* the setInterval callback of startFlushInterval()
TimerTick ==
    /\ flushInterval
    /\ IF TimerGuard
       THEN eventQueue' = FlushQueue(eventQueue) /\ inflight' = FlushInflight(eventQueue)
       ELSE UNCHANGED <<eventQueue, inflight>>
    /\ last' = Done("timer")
    /\ UNCHANGED <<flushInterval, consecutiveFailures, isCircuitOpen, isAiEnabled,
                   recent, now, emitted, serverVars, streak, accepted, resetAt>>
    /\ UNCHANGED emitterVars

\* mutant: destroy() posts the queue itself, without the guards of flush()
Destroy_Beacon ==
    /\ flushInterval' = FALSE
    /\ eventQueue' = <<>>
    /\ inflight' = Append(inflight, [events |-> eventQueue, stage |-> "sent",
                                     openAtStart |-> isCircuitOpen])
    /\ last' = [op |-> "destroy", env |-> NoEnvelope, open |-> isCircuitOpen,
              log |-> <<>>]
    /\ UNCHANGED <<consecutiveFailures, isCircuitOpen, isAiEnabled, recent, now, emitted,
                   CONFLUENT_ENABLED, kafkaProducer, brokerLog, request, response,
                   streak, accepted, resetAt>>
    /\ UNCHANGED emitterVars

\* mutant: destroy() flushes but leaves the timer running
Destroy_KeepsTimer ==
    /\ IF DestroyGuard
       THEN eventQueue' = FlushQueue(eventQueue) /\ inflight' = FlushInflight(eventQueue)
       ELSE UNCHANGED <<eventQueue, inflight>>
    /\ last' = [op |-> "destroy", env |-> NoEnvelope, open |-> isCircuitOpen,
              log |-> <<>>]
    /\ UNCHANGED <<flushInterval, consecutiveFailures, isCircuitOpen, isAiEnabled, recent, now,
                   emitted, CONFLUENT_ENABLED, kafkaProducer, brokerLog, request, response,
                   streak, accepted, resetAt>>
    /\ UNCHANGED emitterVars

Destroy ==
    /\ flushInterval' = FALSE
    /\ IF DestroyGuard
       THEN eventQueue' = FlushQueue(eventQueue) /\ inflight' = FlushInflight(eventQueue)
       ELSE UNCHANGED <<eventQueue, inflight>>
    /\ last' = Done("destroy")
    /\ UNCHANGED <<consecutiveFailures, isCircuitOpen, isAiEnabled,
                   recent, now, emitted, serverVars, streak, accepted, resetAt>>
    /\ UNCHANGED emitterVars

\* mutant: resetCircuit() does not restart the timer
ResetCircuit_NoTimer ==
    /\ IF isCircuitOpen
       THEN /\ isCircuitOpen' = FALSE
            /\ consecutiveFailures' = 0
            /\ streak' = 0
            /\ resetAt' = emitted
       ELSE UNCHANGED <<isCircuitOpen, consecutiveFailures, streak, resetAt>>
    /\ last' = [op |-> "resetCircuit", env |-> NoEnvelope, open |-> isCircuitOpen,
              log |-> <<>>]
    /\ UNCHANGED <<eventQueue, flushInterval, isAiEnabled, recent, now, inflight, emitted,
                   CONFLUENT_ENABLED, kafkaProducer, brokerLog, request, response, accepted>>
    /\ UNCHANGED emitterVars

\* mutant: resetCircuit() clears the counter also when the circuit is CLOSED
ResetCircuit_Always ==
    /\ isCircuitOpen' = FALSE
    /\ consecutiveFailures' = 0
    /\ flushInterval' = (flushInterval \/ isCircuitOpen)
    /\ streak' = IF isCircuitOpen THEN 0 ELSE streak
    /\ resetAt' = IF isCircuitOpen THEN emitted ELSE resetAt
    /\ last' = [op |-> "resetCircuit", env |-> NoEnvelope, open |-> isCircuitOpen,
                log |-> <<>>]
    /\ UNCHANGED <<eventQueue, isAiEnabled, recent, now, inflight, emitted,
                   CONFLUENT_ENABLED, kafkaProducer, brokerLog, request, response, accepted>>
    /\ UNCHANGED emitterVars

ResetCircuit ==
    /\ IF isCircuitOpen
       THEN /\ isCircuitOpen' = FALSE
            /\ consecutiveFailures' = 0
            /\ flushInterval' = TRUE
            /\ streak' = 0
            /\ resetAt' = emitted
       ELSE UNCHANGED <<isCircuitOpen, consecutiveFailures, flushInterval, streak, resetAt>>
    /\ last' = DoneLog("resetCircuit",
                        IF isCircuitOpen THEN <<"Circuit breaker reset">> ELSE <<>>)
    /\ UNCHANGED <<eventQueue, isAiEnabled, recent, now, inflight, emitted, serverVars,
                   accepted>>
    /\ UNCHANGED emitterVars

\* fetch resolves with response.ok: the success branch runs.  st is the stage
\* the call is resumed from: "r200" where the repository's endpoint answers,
\* "sent" where the endpoint is left open and any response may arrive
FlushOk(i, st) ==
    /\ i \in 1..Len(inflight)
    /\ inflight[i].stage = st
    /\ SuccessBranch
    /\ inflight' = [inflight EXCEPT ![i].stage = "json"]
    /\ last' = DoneLog("flushOk", SuccessLog)
    /\ streak' = 0
    /\ UNCHANGED <<isAiEnabled, recent, now, emitted, serverVars, accepted, resetAt>>
    /\ UNCHANGED emitterVars

\* response.json() resolves: flush() returns
FlushDone(i) ==
    /\ i \in 1..Len(inflight)
    /\ inflight[i].stage = "json"
    /\ inflight' = RemoveAt(inflight, i)
    /\ last' = Done("flushDone")
    /\ UNCHANGED <<eventQueue, flushInterval, consecutiveFailures, isCircuitOpen,
                   isAiEnabled, recent, now, emitted, serverVars, streak, accepted, resetAt>>
    /\ UNCHANGED emitterVars

\* fetch resolves with a non-OK response
FlushNotOk(i, st) ==
    /\ i \in 1..Len(inflight)
    /\ inflight[i].stage = st
    /\ FailureBranch(inflight[i].events)
    /\ inflight' = RemoveAt(inflight, i)
    /\ last' = DoneLog("flushNotOk",
                        FailureLog("Failed to publish events", consecutiveFailures + 1))
    /\ streak' = streak + 1
    /\ UNCHANGED <<isAiEnabled, recent, now, emitted, serverVars, accepted, resetAt>>
    /\ UNCHANGED emitterVars

\* fetch or response.json() rejects (network error, timeout, broken body):
\* the catch block runs
FlushError(i) ==
    /\ i \in 1..Len(inflight)
    /\ FailureBranch(inflight[i].events)
    /\ inflight' = RemoveAt(inflight, i)
    /\ last' = DoneLog("flushError",
                        FailureLog("Connection error", consecutiveFailures + 1))
    /\ streak' = streak + 1
    /\ UNCHANGED <<isAiEnabled, recent, now, emitted, serverVars, accepted, resetAt>>
    /\ UNCHANGED emitterVars

ClockSteps == {999, 1000}

\* time passes between two handlers; the forEach of an emission is synchronous
\* and takes less than one step of the clock
AdvanceClock(d) ==
    /\ ~dispatch.active
    /\ now + d <= MaxTime
    /\ now' = now + d
    /\ UNCHANGED <<eventQueue, flushInterval, consecutiveFailures, isCircuitOpen,
                   isAiEnabled, recent, inflight, emitted, serverVars, historyVars>>
    /\ UNCHANGED emitterVars

----------------------------------------------------------------------------
(* EventEmitterService: subscribe, the functions it returns, and the        *)
(* forEach of emitHotelEvent.  A callback is any code: while it runs it may *)
(* call subscribe() and the functions subscribe() has returned, and it      *)
(* returns or throws.  emitHotelEvent is not called from inside a callback. *)

\* the callback functions of a run; the same function may be subscribed twice
Callbacks == {"f", "g"}

\* the callback useEventTracking subscribes: (event) => kafkaPublisher.publish(event)
TrackingHook == "publish"

\* the components that mount useEventTracking; each mount subscribes a callback
\* of its own
Components == {"App", "VirtualLobby"}

HookOf(c) == "publish." \o c

TrackingHooks == {TrackingHook} \cup { HookOf(c) : c \in Components }

NoDispatch ==
    [ active |-> FALSE, k |-> 0, len |-> 0, env |-> NoEnvelope, inCallback |-> FALSE,
      atStart |-> <<>>, removed |-> {} ]

\* code of the page runs between two handlers or inside a callback
CanCall == ~dispatch.active \/ dispatch.inCallback

\* this.callbacks.indexOf(callback), 1-based; 0 stands for -1
IndexOf(callback) ==
    IF \E i \in 1..Len(callbacks) : callbacks[i].fn = callback
    THEN CHOOSE i \in 1..Len(callbacks) :
            /\ callbacks[i].fn = callback
            /\ \A j \in 1..(i - 1) : callbacks[j].fn # callback
    ELSE 0

\* subscribe(callback)
Subscribe(callback) ==
    /\ CanCall
    /\ Len(closures) < MaxSubs
    /\ callbacks' = Append(callbacks, [fn |-> callback, reg |-> Len(closures) + 1])
    /\ closures' = Append(closures, callback)
    /\ registered' = Append(registered, [fn |-> callback, reg |-> Len(closures) + 1])
    /\ UNCHANGED <<dispatch, delivered, errorLog, clientVars, serverVars, historyVars, userId>>

\* a call of the function the r-th subscribe() returned
Unsubscribe(r) ==
    LET index == IndexOf(closures[r])
        isIn(c) == c.reg # r
    IN  /\ CanCall
        /\ r \in 1..Len(closures)
        /\ callbacks' = IF index > 0 THEN RemoveAt(callbacks, index) ELSE callbacks
        /\ dispatch' = IF dispatch.active /\ index > 0
                       THEN [dispatch EXCEPT !.removed = @ \cup {callbacks[index].reg}]
                       ELSE dispatch
        /\ registered' = SelectSeq(registered, isIn)
        /\ UNCHANGED <<closures, delivered, errorLog, clientVars, serverVars, historyVars, userId>>

\* emitHotelEvent(o) up to the forEach: the envelope is built, len is read once
Dispatch(o) ==
    /\ ~dispatch.active
    /\ emitted < MaxEmit
    /\ emitted' = emitted + 1
    /\ dispatch' = [ active |-> TRUE, k |-> 1, len |-> Len(callbacks),
                     env |-> Envelope(o, emitted + 1, now), inCallback |-> FALSE,
                     atStart |-> callbacks, removed |-> {} ]
    /\ delivered' = <<>>
    /\ errorLog' = <<>>
    /\ UNCHANGED <<callbacks, closures, registered, eventQueue, flushInterval,
                   consecutiveFailures, isCircuitOpen, isAiEnabled, recent, now, inflight,
                   serverVars, historyVars, userId>>

\* forEach calls cb(fullEvent) for the element at index k; the callback of the
\* tracking hook hands the envelope to publish()
Invoke ==
    /\ dispatch.active
    /\ ~dispatch.inCallback
    /\ dispatch.k <= dispatch.len
    /\ dispatch.k <= Len(callbacks)
    /\ delivered' = Append(delivered, [reg |-> callbacks[dispatch.k].reg,
                                       fn |-> callbacks[dispatch.k].fn,
                                       eventId |-> dispatch.env.eventId])
    /\ dispatch' = [dispatch EXCEPT !.inCallback = TRUE]
    /\ IF callbacks[dispatch.k].fn \in TrackingHooks
       THEN /\ Publish(dispatch.env)
            /\ UNCHANGED <<flushInterval, consecutiveFailures, isCircuitOpen,
                           isAiEnabled, now, emitted>>
       ELSE UNCHANGED clientVars
    /\ UNCHANGED <<callbacks, closures, registered, errorLog, serverVars,
                   historyVars, userId>>

\* the callback returns
Return ==
    /\ dispatch.active
    /\ dispatch.inCallback
    /\ dispatch' = [dispatch EXCEPT !.inCallback = FALSE, !.k = @ + 1]
    /\ UNCHANGED <<callbacks, closures, registered, delivered, errorLog, clientVars,
                   serverVars, historyVars, userId>>

\* the callback throws: the catch logs the error
Throw ==
    /\ dispatch.active
    /\ dispatch.inCallback
    /\ errorLog' = Append(errorLog, delivered[Len(delivered)].reg)
    /\ dispatch' = [dispatch EXCEPT !.inCallback = FALSE, !.k = @ + 1]
    /\ UNCHANGED <<callbacks, closures, registered, delivered, clientVars, serverVars,
                   historyVars, userId>>

\* forEach finds no element at the indices k..len-1: emitHotelEvent returns
DispatchReturns ==
    /\ dispatch.active
    /\ ~dispatch.inCallback
    /\ dispatch.k > dispatch.len \/ dispatch.k > Len(callbacks)
    /\ dispatch' = [dispatch EXCEPT !.active = FALSE]
    /\ UNCHANGED <<callbacks, closures, registered, delivered, errorLog, clientVars,
                   serverVars, historyVars, userId>>

\* setUserId(u)
SetUserId(u) ==
    /\ CanCall
    /\ userId' = u
    /\ UNCHANGED <<callbacks, closures, registered, dispatch, delivered, errorLog,
                   clientVars, serverVars, historyVars>>

\* the emitter after its constructor
InitEmitter ==
    /\ callbacks = <<>>
    /\ closures = <<>>
    /\ registered = <<>>
    /\ dispatch = NoDispatch
    /\ delivered = <<>>
    /\ errorLog = <<>>
    /\ userId = Undefined

\* the emitter after useEventTracking has subscribed its callback
InitTracked ==
    /\ callbacks = <<[fn |-> TrackingHook, reg |-> 1]>>
    /\ closures = <<TrackingHook>>
    /\ registered = <<[fn |-> TrackingHook, reg |-> 1]>>
    /\ dispatch = NoDispatch
    /\ delivered = <<>>
    /\ errorLog = <<>>
    /\ userId = Undefined

----------------------------------------------------------------------------
(* POST /api/events *)


\* event.f of a parsed JSON object: undefined when the field is missing
Get(e, f) == IF f \in DOMAIN e THEN e[f] ELSE Undefined

\* The JSON value null as an element of the events array; reading null.type
\* throws a TypeError
JsonNull == [null |-> TRUE]

IsNull(e) == "null" \in DOMAIN e

\* events.filter(...) throws: the catch of the handler answers 500
FilterThrows(events) == \E i \in 1..Len(events) : IsNull(events[i])

Falsy(v) == v \in {Undefined, ""}

\* mutant: the filter tests only that the event has a type
ServerAllows_AnyType(e) == ~Falsy(Get(e, "type"))

\* the predicate of events.filter(...)
ServerAllows(e) ==
    /\ ~Falsy(Get(e, "type"))
    /\ Get(e, "type") \in SERVER_ALLOWED_EVENT_TYPES

RECURSIVE Filter(_)
Filter(events) ==
    IF events = <<>> THEN <<>>
    ELSE IF ServerAllows(Head(events))
         THEN <<Head(events)>> \o Filter(Tail(events))
         ELSE Filter(Tail(events))

Topic == "seedcore.hotel.events"

\* JSON.stringify of an event object: a property whose value is undefined is
\* left out, the others are kept.  Of the properties of an envelope only
\* userId can be undefined.
Stringify(e) ==
    IF "userId" \in DOMAIN e /\ e.userId = Undefined
    THEN [ f \in DOMAIN e \ {"userId"} |-> e[f] ]
    ELSE e

\* mutant: the key is the sessionId as it is, also when it is missing or empty
Message_NoSentinel(e) ==
    [ topic |-> Topic, key |-> Get(e, "sessionId"), value |-> Stringify(e) ]

\* one element of allowedEvents.map(...); the value is named by the object
\* JSON.stringify(event) serializes
Message(e) ==
    [ topic |-> Topic,
      key |-> IF Falsy(Get(e, "sessionId")) THEN "unknown" ELSE Get(e, "sessionId"),
      value |-> Stringify(e) ]

Messages(events) == [ i \in 1..Len(events) |-> Message(events[i]) ]

\* A response is the status and the fields of the JSON body the handler sets;
\* a field the handler does not set is absent
NoResponse == [status |-> 0]

\* A request body: isArray tells whether body.events is an array, events is
\* that array (empty when there is none)
Body(events) == [isArray |-> TRUE, events |-> events]

\* mutant: flush() stamps each event with the time of the request
WireBody_Restamped(events) ==
    Body([ k \in 1..Len(events) |-> [Stringify(events[k]) EXCEPT !.timestamp = now] ])

\* body: JSON.stringify({ events }) of flush(), as express.json() parses it
WireBody(events) == Body([ k \in 1..Len(events) |-> Stringify(events[k]) ])

NoArray == [isArray |-> FALSE, events |-> <<>>]

\* mutant: only Array.isArray is tested
MissingOrEmpty_NoLength(body) == ~body.isArray

\* !Array.isArray(events) || events.length === 0
MissingOrEmpty(body) == ~body.isArray \/ Len(body.events) = 0

\* mutant: an unconfigured broker is reported as 503 Service Unavailable
IngressResponse_Unconfigured503(body, sendOk) ==
    LET events == body.events IN
    IF ~CONFLUENT_ENABLED THEN [status |-> 200, success |-> TRUE, published |-> 0]
    ELSE IF ~kafkaProducer THEN [status |-> 503]
    ELSE IF ~body.isArray \/ Len(body.events) = 0 THEN [status |-> 400]
    ELSE IF \E i \in 1..Len(events) : "null" \in DOMAIN events[i] THEN [status |-> 500]
    ELSE IF \A i \in 1..Len(events) :
                ~("type" \in DOMAIN events[i] /\ events[i].type \in SERVER_ALLOWED_EVENT_TYPES)
         THEN [status |-> 200, success |-> TRUE, published |-> 0]
    ELSE IF ~sendOk THEN [status |-> 500]
    ELSE [status |-> 200, success |-> TRUE,
          published |-> Cardinality({ i \in 1..Len(events) :
                            "type" \in DOMAIN events[i]
                            /\ events[i].type \in SERVER_ALLOWED_EVENT_TYPES }),
          dropped |-> Cardinality({ i \in 1..Len(events) :
                            ~("type" \in DOMAIN events[i]
                              /\ events[i].type \in SERVER_ALLOWED_EVENT_TYPES) })]

\* The response of the handler to a request; sendOk: kafkaProducer.send resolves
IngressResponse(body, sendOk) ==
    LET events == body.events IN
    IF ~CONFLUENT_ENABLED THEN [status |-> 200, success |-> TRUE, published |-> 0]
    ELSE IF ~kafkaProducer THEN [status |-> 200, success |-> TRUE, published |-> 0]
    ELSE IF MissingOrEmpty(body) THEN [status |-> 400]
    ELSE IF FilterThrows(events) THEN [status |-> 500]
    ELSE IF Filter(events) = <<>> THEN [status |-> 200, success |-> TRUE, published |-> 0]
    ELSE IF ~sendOk THEN [status |-> 500]
    ELSE [status |-> 200, success |-> TRUE, published |-> Len(Filter(events)),
          dropped |-> Len(events) - Len(Filter(events))]

\* the messages the handler passes to kafkaProducer.send
IngressSends(body) ==
    IF /\ CONFLUENT_ENABLED
       /\ kafkaProducer
       /\ ~MissingOrEmpty(body)
       /\ ~FilterThrows(body.events)
    THEN Messages(Filter(body.events))
    ELSE <<>>

StageOf(status) ==
    IF status = 200 THEN "r200" ELSE IF status = 400 THEN "r400" ELSE "r500"

\* The endpoint handles a request posted to it directly, with any body
Post(body, sendOk) ==
    LET sends == IF sendOk THEN IngressSends(body) ELSE <<>>
    IN  /\ ~sendOk => IngressSends(body) # <<>>
        /\ Len(brokerLog) + Len(sends) <= MaxBroker
        /\ brokerLog' = brokerLog \o sends
        /\ request' = body
        /\ response' = IngressResponse(body, sendOk)
        /\ last' = Done("post")
        /\ UNCHANGED <<clientVars, CONFLUENT_ENABLED, kafkaProducer, streak, accepted, resetAt>>
        /\ UNCHANGED emitterVars

\* The endpoint handles the request of the i-th suspended flush
Ingress(i, sendOk) ==
    LET body == WireBody(inflight[i].events)
        sends == IF sendOk THEN IngressSends(body) ELSE <<>>
    IN  /\ i \in 1..Len(inflight)
        /\ inflight[i].stage = "sent"
        /\ ~sendOk => IngressSends(body) # <<>>
        /\ Len(brokerLog) + Len(sends) <= MaxBroker
        /\ brokerLog' = brokerLog \o sends
        /\ request' = body
        /\ response' = IngressResponse(body, sendOk)
        /\ inflight' = [inflight EXCEPT ![i].stage = StageOf(IngressResponse(body, sendOk).status)]
        /\ last' = Done("ingress")
        /\ UNCHANGED <<eventQueue, flushInterval, consecutiveFailures, isCircuitOpen,
                       isAiEnabled, recent, now, emitted, CONFLUENT_ENABLED, kafkaProducer,
                       streak, accepted, resetAt>>
        /\ UNCHANGED emitterVars

----------------------------------------------------------------------------
(* Spec: the publisher in the browser.  The endpoint is left open: a fetch  *)
(* may resolve with an OK response, with a non-OK response, or reject.      *)

\* the publisher after its constructor; keys: the deduplication keys of the run
InitPublisher(keys) ==
    /\ eventQueue = <<>>
    /\ flushInterval = TRUE
    /\ consecutiveFailures = 0
    /\ isCircuitOpen = FALSE
    /\ isAiEnabled = FALSE
    /\ recent = [k \in keys |-> 0]
    /\ now = 1
    /\ inflight = <<>>
    /\ emitted = 0
    /\ last = [op |-> "init", env |-> NoEnvelope, open |-> FALSE, log |-> <<>>]
    /\ streak = 0
    /\ accepted = [k \in keys |-> 0]
    /\ resetAt = -1

InitClient == InitPublisher(DedupeKeys)

InitServer ==
    /\ brokerLog = <<>>
    /\ request = NoArray
    /\ response = NoResponse

Init ==
    /\ InitClient
    /\ InitTracked
    /\ InitServer
    /\ CONFLUENT_ENABLED = TRUE
    /\ kafkaProducer = TRUE

Next ==
    \/ \E o \in Occurrences : Emit(o)
    \/ \E b \in BOOLEAN : SetAiEnabled(b)
    \/ TimerTick
    \/ Destroy
    \/ ResetCircuit
    \/ \E i \in 1..Len(inflight) : FlushOk(i, "sent")
    \/ \E i \in 1..Len(inflight) : FlushDone(i)
    \/ \E i \in 1..Len(inflight) : FlushNotOk(i, "sent")
    \/ \E i \in 1..Len(inflight) : FlushError(i)
    \/ \E d \in ClockSteps : AdvanceClock(d)

Spec == Init /\ [][Next]_vars

----------------------------------------------------------------------------
(* SpecPipeline: the publisher with the repository's endpoint and broker.   *)
(* Every request is handled by POST /api/events; requests on different      *)
(* connections are handled in any order.                                    *)

PipelineOccurrences ==
    { o \in Occurrences : o.source = "ui" /\ o.type \in {"ui.button.clicked"} }

\* kafkaProducer is created only if CONFLUENT_ENABLED and brokers are configured
InitConfig ==
    /\ CONFLUENT_ENABLED \in BOOLEAN
    /\ kafkaProducer \in BOOLEAN
    /\ kafkaProducer => CONFLUENT_ENABLED

InitPipeline == InitClient /\ InitTracked /\ InitServer /\ InitConfig

NextPipeline ==
    \/ \E o \in PipelineOccurrences : Emit(o)
    \/ \E b \in BOOLEAN : SetAiEnabled(b)
    \/ TimerTick
    \/ Destroy
    \/ ResetCircuit
    \/ \E i \in 1..Len(inflight), sendOk \in BOOLEAN : Ingress(i, sendOk)
    \/ \E i \in 1..Len(inflight) : FlushOk(i, "r200")
    \/ \E i \in 1..Len(inflight) : FlushDone(i)
    \/ \E i \in 1..Len(inflight) : FlushNotOk(i, "r500")
    \/ \E i \in 1..Len(inflight) : FlushError(i)
    \/ \E d \in ClockSteps : AdvanceClock(d)

SpecPipeline == InitPipeline /\ [][NextPipeline]_vars

----------------------------------------------------------------------------
(* SpecIngress: the endpoint alone, posted any body.                        *)

\* The elements of a posted events array: an allow-listed event, one without
\* sessionId, one with an empty sessionId, one of a type not allow-listed, one
\* without a type, and null
RawEvents ==
    { [type |-> "ui.button.clicked", sessionId |-> "session_1"],
      [type |-> "sim.agent.state.changed"],
      [type |-> "ui.keyboard.pressed", sessionId |-> ""],
      [type |-> "not.allowed", sessionId |-> "session_1"],
      [sessionId |-> "session_2"],
      JsonNull }

\* a body without an events array, and the bodies with one
Bodies ==
    {NoArray} \cup { Body(events) : events \in UNION { [1..n -> RawEvents] : n \in 0..MaxBatch } }

InitIngress == InitClient /\ InitEmitter /\ InitServer /\ InitConfig

NextIngress == \E body \in Bodies, sendOk \in BOOLEAN : Post(body, sendOk)

SpecIngress == InitIngress /\ [][NextIngress]_vars

----------------------------------------------------------------------------
(* SpecBurst: a burst of emitHotelEvent calls with different payloads,     *)
(* within one period of the flush timer (2 s) and one deduplication window. *)

DigitChars == <<"0", "1", "2", "3", "4", "5", "6", "7", "8", "9">>

\* the decimal digits of n, as JSON.stringify writes a number
RECURSIVE Str(_)
Str(n) == IF n < 10 THEN DigitChars[n + 1] ELSE Str(n \div 10) \o DigitChars[(n % 10) + 1]

\* what a caller of emitHotelEvent passes for a click on the n-th button
BurstOccurrence(n) ==
    [source |-> "ui", type |-> "ui.button.clicked", payload |-> "{buttonId:b" \o Str(n) \o "}"]

BurstKeys == { DedupeKey(BurstOccurrence(n)) : n \in 1..MaxBurst }

\* the next emitHotelEvent call of the burst
Burst == emitted < MaxBurst /\ EmitHotelEvent(BurstOccurrence(emitted + 1))

InitBurst ==
    /\ InitPublisher(BurstKeys)
    /\ InitTracked
    /\ InitServer
    /\ CONFLUENT_ENABLED = TRUE
    /\ kafkaProducer = TRUE

NextBurst ==
    \/ Burst
    \/ \E i \in 1..Len(inflight) : FlushOk(i, "sent")
    \/ \E i \in 1..Len(inflight) : FlushDone(i)
    \/ \E i \in 1..Len(inflight) : FlushNotOk(i, "sent")
    \/ \E i \in 1..Len(inflight) : FlushError(i)

SpecBurst == InitBurst /\ [][NextBurst]_vars

----------------------------------------------------------------------------
(* SpecEmitter: the emitter with any subscribers.                           *)

InitEmittingPage ==
    /\ InitClient
    /\ InitEmitter
    /\ InitServer
    /\ CONFLUENT_ENABLED = TRUE
    /\ kafkaProducer = TRUE

NextEmitter ==
    \/ \E callback \in Callbacks : Subscribe(callback)
    \/ \E r \in 1..Len(closures) : Unsubscribe(r)
    \/ \E o \in PipelineOccurrences : Dispatch(o)
    \/ Invoke
    \/ Return
    \/ Throw
    \/ DispatchReturns

SpecEmitter == InitEmittingPage /\ [][NextEmitter]_vars

----------------------------------------------------------------------------
(* What the specification says, stated without the publisher's own tests *)

\* the allow-listed types of the ingress wire contract
AllowListOfSpec ==
    { "ui.hotspot.entered", "ui.hotspot.left", "ui.voice.transcript.final",
      "ui.button.clicked", "ui.keyboard.pressed",
      "sim.room.occupancy.changed", "sim.agent.state.changed" }

Range(s) == { s[i] : i \in 1..Len(s) }

\* the envelopes the publisher holds: queued, or in the batch of a suspended flush
Held == Range(eventQueue) \cup UNION { Range(inflight[i].events) : i \in 1..Len(inflight) }

\* the envelope the step Emit(o) publishes
Emitted(o) == Envelope(o, emitted + 1, now)

\* a step that starts a network call with the batch q
Fetches(q) == inflight' = Append(inflight, [events |-> q, stage |-> "sent", openAtStart |-> FALSE])

\* the step leaves the queue alone and starts no network call
Dropped == eventQueue' = eventQueue /\ inflight' = inflight

\* the step enqueues e at the tail; at the high-water mark of 50 the whole
\* queue is sent at once
Enqueued(e) ==
    IF Len(eventQueue) + 1 >= 50
    THEN eventQueue' = <<>> /\ Fetches(Append(eventQueue, e))
    ELSE eventQueue' = Append(eventQueue, e) /\ inflight' = inflight

\* o passes the boot-screen filter as the specification states it
PassesBoot(o) ==
    isAiEnabled \/ (o.source = "ui" /\ o.type \in {"ui.button.clicked", "ui.keyboard.pressed"})

\* an envelope with o's type and payload was enqueued less than 1000 ms ago
RecentlyAccepted(o) ==
    accepted[<<o.type, o.payload>>] # 0 /\ now - accepted[<<o.type, o.payload>>] < 1000

FailureStep == \E i \in 1..Len(inflight) : FlushNotOk(i, "sent") \/ FlushError(i)

SuccessStep == \E i \in 1..Len(inflight) : FlushOk(i, "sent")

----------------------------------------------------------------------------
(* C1: the messages the broker holds for one sessionId are in emission      *)
(* order (eventId numbers the envelopes in emission order).                 *)
C1_BrokerKeepsEmissionOrder ==
    \A i, j \in 1..Len(brokerLog) :
        (i < j /\ brokerLog[i].key = brokerLog[j].key)
            => brokerLog[i].value.eventId <= brokerLog[j].value.eventId

(* C3: every message the endpoint hands to the broker has an allow-listed   *)
(* type, whatever the body of the request is.                               *)
C3_BrokerOnlyAllowListed ==
    \A i \in 1..Len(brokerLog) :
        /\ "type" \in DOMAIN brokerLog[i].value
        /\ brokerLog[i].value.type \in AllowListOfSpec

C3_Witness ==
    /\ last.op = "post"
    /\ Len(request.events) = 2
    /\ \E i \in 1..2 : Get(request.events[i], "type") = "not.allowed"
    /\ response.status = 200
    /\ response.published = 1
    /\ Len(brokerLog) = 1

(* C2: publish() of an envelope whose type is not allow-listed leaves the   *)
(* queue unchanged and starts no network call, whatever the circuit and     *)
(* the AI flag are; every envelope queued or in an in-flight batch has an   *)
(* allow-listed type.                                                       *)
C2_NotAllowListedNeverSent ==
    /\ [][\A o \in Occurrences :
            (o.type \notin AllowListOfSpec /\ Emit(o)) => Dropped]_vars
    /\ [](\A e \in Held : e.type \in AllowListOfSpec)

C2_Witness ==
    /\ last.op = "publish"
    /\ last.env.type \notin AllowListOfSpec
    /\ isAiEnabled
    /\ ~isCircuitOpen
    /\ Len(eventQueue) = 1

(* C4: the circuit goes from CLOSED to OPEN exactly in a failed flush       *)
(* completion that is the 3rd since the last successful completion or       *)
(* (effective) reset; that step cancels the timer, leaves the queue empty   *)
(* and drops the failed batch.                                              *)
C4_OpensOnThirdFailure ==
    [][ /\ (~isCircuitOpen /\ isCircuitOpen') <=> (FailureStep /\ streak' = 3)
        /\ (~isCircuitOpen /\ isCircuitOpen') =>
              /\ ~flushInterval'
              /\ eventQueue' = <<>>
              /\ Len(inflight') = Len(inflight) - 1 ]_vars

C4_Witness ==
    /\ last.op \in {"flushNotOk", "flushError"}
    /\ ~last.open
    /\ isCircuitOpen
    /\ streak = 3
    /\ Len(inflight) = 1

(* C5: whenever the circuit is OPEN the queue is empty.                     *)
C5_OpenMeansEmptyQueue == isCircuitOpen => eventQueue = <<>>

C5_Witness ==
    /\ last.op = "publish"
    /\ last.open
    /\ isCircuitOpen
    /\ isAiEnabled
    /\ last.env.type \in AllowListOfSpec

(* C6: a step taken while the circuit is OPEN starts no network call, and   *)
(* every outstanding call was started while the circuit was CLOSED.         *)
C6_NoCallWhileOpen ==
    /\ [][isCircuitOpen =>
            /\ Len(inflight') <= Len(inflight)
            /\ \A j \in 1..Len(inflight') :
                 \E i \in 1..Len(inflight) : inflight'[j].events = inflight[i].events]_vars
    /\ [](\A i \in 1..Len(inflight) : ~inflight[i].openAtStart)

C6_Witness ==
    /\ last.op = "destroy"
    /\ last.open
    /\ isCircuitOpen
    /\ Len(inflight) = 1

(* C7: the circuit goes from OPEN to CLOSED only in a resetCircuit() step   *)
(* or in the success branch of a flush; with no flush in flight an OPEN     *)
(* circuit stays OPEN in every step but resetCircuit().                     *)
C7_OnlyResetOrSuccessCloses ==
    [][ /\ (isCircuitOpen /\ ~isCircuitOpen') => (ResetCircuit \/ SuccessStep)
        /\ (isCircuitOpen /\ inflight = <<>> /\ ~ResetCircuit) => isCircuitOpen' ]_vars

C7_Witness ==
    /\ last.op = "flushOk"
    /\ last.open
    /\ ~isCircuitOpen
    /\ flushInterval

(* C8: resetCircuit() on an OPEN circuit leaves it CLOSED with the counter  *)
(* at 0 and the timer running; the next publish() that passes the filters   *)
(* is enqueued, and a timer tick sends the whole queue as one batch.        *)
C8_ResetResumes ==
    [][ /\ (isCircuitOpen /\ ResetCircuit) =>
              (~isCircuitOpen' /\ consecutiveFailures' = 0 /\ flushInterval')
        /\ \A o \in Occurrences :
              ( /\ resetAt = emitted
                /\ ~isCircuitOpen
                /\ o.type \in AllowListOfSpec
                /\ PassesBoot(o)
                /\ ~RecentlyAccepted(o)
                /\ Emit(o) ) => Enqueued(Emitted(o))
        /\ (~isCircuitOpen /\ eventQueue # <<>> /\ TimerTick) =>
              (eventQueue' = <<>> /\ Fetches(eventQueue)) ]_vars

C8_Witness ==
    /\ resetAt >= 0
    /\ last.op = "timer"
    /\ eventQueue = <<>>
    /\ Len(inflight) = 1
    /\ inflight[1].stage = "sent"
    /\ inflight[1].events[1].eventId = resetAt + 1

(* C9: a publish() that passes the circuit, boot and allow-list checks is   *)
(* dropped if an envelope with the same type and payload was enqueued less  *)
(* than 1000 ms earlier, and is enqueued otherwise.                         *)
C9_DedupeWindow ==
    [][\A o \in Occurrences :
          ( /\ ~isCircuitOpen
            /\ PassesBoot(o)
            /\ o.type \in AllowListOfSpec
            /\ Emit(o) ) =>
          IF RecentlyAccepted(o) THEN Dropped ELSE Enqueued(Emitted(o))]_vars

C9_Witness ==
    /\ Len(eventQueue) = 2
    /\ eventQueue[1].type = eventQueue[2].type
    /\ eventQueue[1].payload = eventQueue[2].payload
    /\ eventQueue[2].timestamp - eventQueue[1].timestamp = 1000

(* C10: while the AI flag is false publish() enqueues only ui-sourced       *)
(* ui.button.clicked / ui.keyboard.pressed envelopes (and does enqueue a    *)
(* ui.button.clicked one that is no duplicate while the circuit is          *)
(* CLOSED).                                                                 *)
C10_BootFilter ==
    [][\A o \in Occurrences :
          (~isAiEnabled /\ Emit(o)) =>
             /\ ~Dropped =>
                  (o.source = "ui" /\ o.type \in {"ui.button.clicked", "ui.keyboard.pressed"})
             /\ ( /\ o.source = "ui"
                  /\ o.type = "ui.button.clicked"
                  /\ ~isCircuitOpen
                  /\ ~RecentlyAccepted(o) ) => Enqueued(Emitted(o)) ]_vars

C10_Witness ==
    /\ ~isAiEnabled
    /\ last.op = "publish"
    /\ ~last.open
    /\ last.env.source = "sim"
    /\ last.env.type = "ui.button.clicked"
    /\ Len(eventQueue) = 1
    /\ eventQueue[1].source = "ui"
    /\ eventQueue[1].payload # last.env.payload

(* C11: a publish() that is accepted with the circuit CLOSED and brings the *)
(* queue to 50 envelopes or more starts a flush in the same call, with the  *)
(* whole queue in order as its batch, and leaves the queue empty; below 50  *)
(* it starts none.  In a burst no flush starts before the 50th publish and  *)
(* the 50th starts one with a batch of exactly 50.                          *)
C11_HighWaterFlush ==
    [][ Burst =>
          LET q == Append(eventQueue, Emitted(BurstOccurrence(emitted + 1)))
          IN  /\ (~isCircuitOpen /\ Len(q) >= 50) => (eventQueue' = <<>> /\ Fetches(q))
              /\ (~isCircuitOpen /\ Len(q) < 50) => (eventQueue' = q /\ inflight' = inflight)
              /\ (emitted + 1 < 50) => (inflight = <<>> /\ Len(q) = emitted + 1)
              /\ (emitted + 1 = 50) => (~isCircuitOpen /\ Len(q) = 50) ]_vars

C11_Witness ==
    /\ emitted = 60
    /\ Len(inflight) = 1
    /\ inflight[1].stage = "sent"
    /\ [i \in 1..Len(inflight[1].events) |-> inflight[1].events[i].eventId] = [i \in 1..50 |-> i]
    /\ Len(eventQueue) = 10

(* C12: the queue never holds more than 100 envelopes.                      *)
C12_QueueWithinCapacity == Len(eventQueue) <= 100

(* C13: destroy() cancels the timer; with a non-empty queue and the circuit *)
(* CLOSED it starts exactly one flush whose batch is the whole queue, and   *)
(* otherwise it starts no network call.                                     *)
C13_DestroyFlushesOnce ==
    [][ Destroy =>
          /\ ~flushInterval'
          /\ IF eventQueue # <<>> /\ ~isCircuitOpen
             THEN eventQueue' = <<>> /\ Fetches(eventQueue)
             ELSE inflight' = inflight /\ eventQueue' = eventQueue ]_vars

C13_Witness ==
    /\ last.op = "destroy"
    /\ ~flushInterval
    /\ eventQueue = <<>>
    /\ Len(inflight) = 2
    /\ inflight[2].stage = "sent"
    /\ Len(inflight[2].events) = 1
    /\ inflight[2].events[1].eventId = 2

\* no function has been subscribed twice: a subscriber is its function
DistinctSubscribers ==
    \A r, q \in 1..Len(closures) : r # q => closures[r] # closures[q]

\* an emitHotelEvent call has returned, in a run with distinct subscribers
Dispatched == ~dispatch.active /\ emitted > 0 /\ DistinctSubscribers

\* how many times the dispatch called the callback of registration r
Calls(r) == Cardinality({ j \in 1..Len(delivered) : delivered[j].reg = r })

\* the functions of a list of registrations, in order
Functions(regs) == [ i \in 1..Len(regs) |-> regs[i].fn ]

(* C14: when emitHotelEvent returns, every subscriber that was registered   *)
(* when the dispatch began and was not removed during it has been called    *)
(* exactly once, whatever the callbacks subscribed or unsubscribed          *)
(* meanwhile.                                                               *)
C14_ReentrantDispatchSkipsNone ==
    Dispatched =>
        \A i \in 1..Len(dispatch.atStart) :
            dispatch.atStart[i].reg \notin dispatch.removed => Calls(dispatch.atStart[i].reg) = 1

(* C15: when emitHotelEvent returns it has called the callbacks that were   *)
(* registered at the call, each once, in subscription order, all with the   *)
(* envelope of this call.                                                   *)
C15_EveryCallbackOnceInOrder ==
    Dispatched =>
        /\ [ i \in 1..Len(delivered) |-> delivered[i].reg ]
               = [ i \in 1..Len(dispatch.atStart) |-> dispatch.atStart[i].reg ]
        /\ \A i \in 1..Len(delivered) : delivered[i].eventId = dispatch.env.eventId

(* C16: when emitHotelEvent returns, every exception of a callback has been *)
(* logged and every callback registered after a throwing one (and not       *)
(* removed during the dispatch) has been called with the envelope.          *)
C16_ThrowDoesNotStopDispatch ==
    Dispatched =>
        \A i, j \in 1..Len(dispatch.atStart) :
            ( /\ i < j
              /\ \E t \in 1..Len(errorLog) : errorLog[t] = dispatch.atStart[i].reg
              /\ dispatch.atStart[j].reg \notin dispatch.removed )
            => Calls(dispatch.atStart[j].reg) >= 1

(* C17: the callbacks the emitter holds are, in order, the callbacks of the *)
(* registrations whose own unsubscribe function has not been called.        *)
C17_UnsubscribeRemovesOwnRegistration == Functions(callbacks) = Functions(registered)

\* a non-empty batch of JSON objects none of which has an allow-listed type
NoneAllowListed(body) ==
    /\ body.isArray
    /\ Len(body.events) > 0
    /\ \A i \in 1..Len(body.events) :
          /\ "null" \notin DOMAIN body.events[i]
          /\ "type" \in DOMAIN body.events[i] => body.events[i].type \notin AllowListOfSpec

\* a body with no events array, or with an empty one
NoEvents(body) == ~body.isArray \/ body.events = <<>>

\* the step is the endpoint handling a request with this body
Posted(body) == \E sendOk \in BOOLEAN : Post(body, sendOk)

(* C18: with the broker enabled and configured, a non-empty batch in which  *)
(* no event has an allow-listed type is answered {success: true,            *)
(* published: 0, dropped: <size of the batch>} and the broker is not        *)
(* called.                                                                  *)
C18_AllDroppedIsCounted ==
    [][ ( /\ Posted(request')
          /\ CONFLUENT_ENABLED
          /\ kafkaProducer
          /\ NoneAllowListed(request') ) =>
        /\ response'.status = 200
        /\ response'.success
        /\ response'.published = 0
        /\ "dropped" \in DOMAIN response'
        /\ response'.dropped = Len(request'.events)
        /\ brokerLog' = brokerLog ]_vars

(* C19 as stated: a request without an events array, or with an empty one,  *)
(* is answered 400 in every broker configuration.                           *)
C19_NoEventsAlwaysRejected ==
    [][ (Posted(request') /\ NoEvents(request')) => response'.status = 400 ]_vars

(* C19, amended: a request without an events array, or with an empty one,   *)
(* is answered 400 when the broker is enabled and configured, and with the  *)
(* zero-published success when it is disabled or unconfigured; the broker   *)
(* is not called.                                                           *)
C19_NoEventsRejectedWhenConfigured ==
    [][ (Posted(request') /\ NoEvents(request')) =>
          /\ brokerLog' = brokerLog
          /\ IF CONFLUENT_ENABLED /\ kafkaProducer
             THEN response'.status = 400
             ELSE response'.status = 200 /\ response'.success /\ response'.published = 0
       ]_vars

C19_Witness ==
    /\ last.op = "post"
    /\ CONFLUENT_ENABLED
    /\ kafkaProducer
    /\ request = Body(<<>>)
    /\ response.status = 400

(* C20: with the broker disabled or unconfigured the endpoint answers every *)
(* batch of the client with success and published = 0 and never calls the   *)
(* broker; no step of the client but a rejected fetch (an endpoint that     *)
(* cannot be reached) increments the failure counter or opens the circuit.  *)
C20_UnconfiguredBrokerIsNoFailure ==
    /\ [][ (~CONFLUENT_ENABLED \/ ~kafkaProducer) =>
             /\ \A i \in 1..Len(inflight), sendOk \in BOOLEAN :
                   Ingress(i, sendOk) =>
                      /\ response'.status = 200
                      /\ response'.success
                      /\ response'.published = 0
                      /\ inflight'[i].stage = "r200"
             /\ ~(\E i \in 1..Len(inflight) : FlushError(i)) =>
                   /\ consecutiveFailures' <= consecutiveFailures
                   /\ isCircuitOpen' => isCircuitOpen ]_vars
    /\ []((~CONFLUENT_ENABLED \/ ~kafkaProducer) => brokerLog = <<>>)

C20_Witness ==
    /\ CONFLUENT_ENABLED
    /\ ~kafkaProducer
    /\ last.op = "flushOk"
    /\ Len(request.events) = 2
    /\ response.status = 200
    /\ response.published = 0
    /\ consecutiveFailures = 0
    /\ ~isCircuitOpen
    /\ brokerLog = <<>>

(* C21 *)

\* the event is an object with an allow-listed type
IsAccepted(e) == "null" \notin DOMAIN e /\ "type" \in DOMAIN e /\ e.type \in AllowListOfSpec

\* the events array holds objects only, one of them with an allow-listed type
HasAllowListed(body) ==
    /\ body.isArray
    /\ \A i \in 1..Len(body.events) : "null" \notin DOMAIN body.events[i]
    /\ \E i \in 1..Len(body.events) : IsAccepted(body.events[i])

\* the message the broker is to get for an accepted event
MessageOfSpec(e) ==
    [ topic |-> "seedcore.hotel.events",
      key |-> IF "sessionId" \in DOMAIN e /\ e.sessionId # "" THEN e.sessionId ELSE "unknown",
      value |-> e ]

(* C21: with the broker enabled and configured, for a batch of event        *)
(* objects with at least one allow-listed type, the endpoint gives the      *)
(* broker one message per accepted event, in the order of the batch, to the *)
(* topic seedcore.hotel.events, keyed by the event's sessionId ("unknown"   *)
(* when it is missing or empty), with the event as value; when the broker   *)
(* takes the send the response is 200 with published = the accepted count   *)
(* and dropped = the size of the batch minus the accepted count.            *)
C21_OneMessagePerAcceptedEvent ==
    [][ (CONFLUENT_ENABLED /\ kafkaProducer /\ HasAllowListed(request')
          /\ Post(request', TRUE)) =>
          LET acc == SelectSeq(request'.events, IsAccepted)
          IN  /\ Len(brokerLog') = Len(brokerLog) + Len(acc)
              /\ SubSeq(brokerLog', 1, Len(brokerLog)) = brokerLog
              /\ \A k \in 1..Len(acc) :
                    brokerLog'[Len(brokerLog) + k] = MessageOfSpec(acc[k])
              /\ response'.status = 200
              /\ response'.success
              /\ response'.published = Len(acc)
              /\ response'.dropped = Len(request'.events) - Len(acc) ]_vars

C21_Witness ==
    /\ last.op = "post"
    /\ Len(request.events) = 2
    /\ response.status = 200
    /\ response.published = 1
    /\ response.dropped = 1
    /\ Len(brokerLog) = 2
    /\ brokerLog[1].key = "session_1"
    /\ brokerLog[2].key = "unknown"
    /\ "sessionId" \in DOMAIN brokerLog[2].value
    /\ brokerLog[2].value.sessionId = ""

----------------------------------------------------------------------------
(* SpecEnvelope: the pipeline with a configured broker, from emitHotelEvent *)
(* to the broker, while the page calls setUserId at any time.               *)

UserIds == {"user_1"}

\* the clicks on one button
OneOccurrence ==
    { o \in Occurrences : o.source = "ui" /\ o.payload = "{buttonId:lobby-choice}" }

InitEnvelope ==
    /\ InitClient /\ InitTracked /\ InitServer
    /\ CONFLUENT_ENABLED = TRUE
    /\ kafkaProducer = TRUE

NextEnvelope ==
    \/ \E u \in UserIds : SetUserId(u)
    \/ \E o \in OneOccurrence : Emit(o)
    \/ TimerTick
    \/ \E i \in 1..Len(inflight), sendOk \in BOOLEAN : Ingress(i, sendOk)
    \/ \E i \in 1..Len(inflight) : FlushOk(i, "r200")
    \/ \E i \in 1..Len(inflight) : FlushDone(i)
    \/ \E i \in 1..Len(inflight) : FlushNotOk(i, "r500")
    \/ \E i \in 1..Len(inflight) : FlushError(i)
    \/ \E d \in ClockSteps : AdvanceClock(d)

SpecEnvelope == InitEnvelope /\ [][NextEnvelope]_vars

\* w is the envelope e as the network and the broker carry it: the same
\* eventId, timestamp and sessionId, and the userId e was emitted with (a
\* userId that was not set is not serialized)
Carries(w, e) ==
    /\ w.eventId = e.eventId
    /\ w.timestamp = e.timestamp
    /\ w.sessionId = e.sessionId
    /\ IF e.userId = "undefined"
       THEN "userId" \notin DOMAIN w
       ELSE "userId" \in DOMAIN w /\ w.userId = e.userId

(* C22: eventId, timestamp, sessionId and userId of an envelope are set by  *)
(* emitHotelEvent (a fresh eventId, the time of the call, the session of    *)
(* the emitter, the userId of that moment) and no later step changes them:  *)
(* every envelope in the queue or in a batch after a step is the envelope   *)
(* this step emitted or an envelope that was there before, unchanged (also  *)
(* after a re-queue); the request of a flush and the messages the broker    *)
(* gets carry the fields of the envelopes of the batch; setUserId changes   *)
(* no envelope that has been emitted.                                       *)
C22_EnvelopeIdentityIsStable ==
    /\ [][ \A e \in Held' :
             \/ e \in Held
             \/ \E o \in OneOccurrence :
                   /\ Emit(o)
                   /\ e = [ eventId |-> emitted + 1, timestamp |-> now,
                            sessionId |-> SessionId, userId |-> userId,
                            source |-> o.source, type |-> o.type, payload |-> o.payload ]
                   /\ \A h \in Held : h.eventId # e.eventId ]_vars
    /\ [][ \A i \in 1..Len(inflight) :
             (\E sendOk \in BOOLEAN : Ingress(i, sendOk)) =>
                /\ Len(request'.events) = Len(inflight[i].events)
                /\ \A k \in 1..Len(request'.events) :
                      Carries(request'.events[k], inflight[i].events[k])
                /\ \A m \in (Len(brokerLog) + 1)..Len(brokerLog') :
                      \E k \in 1..Len(inflight[i].events) :
                         Carries(brokerLog'[m].value, inflight[i].events[k]) ]_vars
    /\ [][ (\E u \in UserIds : SetUserId(u)) =>
             /\ eventQueue' = eventQueue
             /\ inflight' = inflight
             /\ brokerLog' = brokerLog ]_vars

\* the broker holds an envelope that was emitted before setUserId was called
\* and before the clock moved, was re-queued after a failed flush and then sent
C22_Witness ==
    /\ last.op = "ingress"
    /\ consecutiveFailures = 1
    /\ userId = "user_1"
    /\ Len(brokerLog) = 1
    /\ brokerLog[1].value.eventId = 1
    /\ "userId" \notin DOMAIN brokerLog[1].value
    /\ brokerLog[1].value.timestamp < now

----------------------------------------------------------------------------
(* SpecLive: the publisher while every fetch resolves with an OK response   *)
(* and destroy() is not called.  setInterval calls the timer callback every *)
(* 2 s for as long as the page runs: the callback is weakly fair.           *)

NextLive ==
    \/ \E o \in PipelineOccurrences : Emit(o)
    \/ \E b \in BOOLEAN : SetAiEnabled(b)
    \/ TimerTick
    \/ \E i \in 1..Len(inflight) : FlushOk(i, "sent")
    \/ \E i \in 1..Len(inflight) : FlushDone(i)
    \/ \E d \in ClockSteps : AdvanceClock(d)

SpecLive == Init /\ [][NextLive]_vars /\ WF_vars(TimerTick)

\* the envelope with eventId n is in the outbound queue
Queued(n) == \E k \in 1..Len(eventQueue) : eventQueue[k].eventId = n

\* the batches of suspended flushes that hold the envelope with eventId n
BatchesOf(n) ==
    { i \in 1..Len(inflight) :
        \E k \in 1..Len(inflight[i].events) : inflight[i].events[k].eventId = n }

(* C23: with a CLOSED circuit, no destroy(), a fair timer and fetches that  *)
(* all succeed, every envelope accepted into the queue is eventually in the *)
(* batch of a flush, and in one batch only: it is never in two batches and  *)
(* never comes back to the queue; a non-empty queue eventually is empty.    *)
C23_QueuedIsEventuallySent ==
    /\ \A n \in 1..MaxEmit : Queued(n) ~> (BatchesOf(n) # {})
    /\ (Len(eventQueue) > 0) ~> (Len(eventQueue) = 0)
    /\ [](\A n \in 1..MaxEmit : Cardinality(BatchesOf(n)) <= 1)
    /\ [][ \A n \in 1..MaxEmit : Queued(n)' => (Queued(n) \/ n = emitted + 1) ]_vars

C23_Witness ==
    /\ last.op = "timer"
    /\ ~isCircuitOpen
    /\ eventQueue = <<>>
    /\ Len(inflight) = 1
    /\ Len(inflight[1].events) = MaxEmit
    /\ BatchesOf(MaxEmit) = {1}

----------------------------------------------------------------------------
(* C24 *)

\* the step starts a flush: one more call is suspended at its fetch
StartsFlush == Len(inflight') = Len(inflight) + 1

\* the batch of the flush the step starts
NewBatch == inflight'[Len(inflight')].events

\* the queue a flush started by this step finds: the queue before the step,
\* with the envelope of the step when publish() starts the flush
QueueAtStart ==
    IF \E o \in Occurrences : Emit(o)
    THEN Append(eventQueue, Envelope(CHOOSE o \in Occurrences : Emit(o), emitted + 1, now))
    ELSE eventQueue

\* the eventIds of the envelopes in the batches of the suspended flushes
InFlightIds ==
    UNION { { inflight[i].events[k].eventId : k \in 1..Len(inflight[i].events) } :
            i \in 1..Len(inflight) }

\* a flush sends the queue as it is when it starts and empties it in the
\* same step; the batch of a suspended flush never changes; a successful
\* completion leaves the queue as it is
SnapshotIsAtomic ==
    /\ StartsFlush =>
          /\ NewBatch = QueueAtStart
          /\ eventQueue' = <<>>
          /\ \A i \in 1..Len(inflight) : inflight'[i] = inflight[i]
    /\ (\E o \in Occurrences : Emit(o)) =>
          \A i \in 1..Len(inflight) : inflight'[i].events = inflight[i].events
    /\ (\E i \in 1..Len(inflight) : FlushOk(i, "sent") \/ FlushDone(i)) =>
          eventQueue' = eventQueue

(* C24 as stated: the snapshot is atomic, and a flush started while another *)
(* is in flight carries only envelopes accepted after that one's snapshot   *)
(* (envelopes with greater eventIds than every envelope of its batch).      *)
C24_SecondFlushOnlyLaterEnvelopes ==
    [][ /\ SnapshotIsAtomic
        /\ StartsFlush =>
              \A k \in 1..Len(NewBatch) : \A n \in InFlightIds : NewBatch[k].eventId > n ]_vars

(* C24, amended: the snapshot is atomic, and a flush started while another  *)
(* is in flight carries none of the envelopes of that one's batch: it       *)
(* carries what entered the queue after that snapshot emptied it, by        *)
(* publish() or by the re-queue of another flush that failed.               *)
C24_SnapshotsAreDisjoint ==
    [][ /\ SnapshotIsAtomic
        /\ StartsFlush =>
              \A k \in 1..Len(NewBatch) : NewBatch[k].eventId \notin InFlightIds ]_vars

\* a second flush has started with the envelope accepted while the first is
\* in flight
C24_Witness ==
    /\ last.op = "timer"
    /\ Len(inflight) = 2
    /\ inflight[1].stage = "sent"
    /\ inflight[1].events[1].eventId = 1
    /\ inflight[2].events[1].eventId = 2
    /\ eventQueue = <<>>

----------------------------------------------------------------------------
(* SpecRequeue: a long burst of emitHotelEvent calls with different         *)
(* payloads made by one synchronous task (no response is handled before the *)
(* task ends), within one period of the flush timer; the responses then     *)
(* arrive in any order.                                                     *)

LongBurstKeys == { DedupeKey(BurstOccurrence(n)) : n \in 1..MaxLongBurst }

\* the next emitHotelEvent call of the long burst
LongBurst == emitted < MaxLongBurst /\ EmitHotelEvent(BurstOccurrence(emitted + 1))

\* the task that emits the burst has returned
BurstOver == emitted = MaxLongBurst

InitRequeue ==
    /\ InitPublisher(LongBurstKeys)
    /\ InitTracked
    /\ InitServer
    /\ CONFLUENT_ENABLED = TRUE
    /\ kafkaProducer = TRUE

NextRequeue ==
    \/ LongBurst
    \/ BurstOver /\ \E i \in 1..Len(inflight) : FlushOk(i, "sent")
    \/ BurstOver /\ \E i \in 1..Len(inflight) : FlushDone(i)
    \/ BurstOver /\ \E i \in 1..Len(inflight) : FlushNotOk(i, "sent")
    \/ BurstOver /\ \E i \in 1..Len(inflight) : FlushError(i)

SpecRequeue == InitRequeue /\ [][NextRequeue]_vars

(* C25: when a flush fails and the incremented counter stays below the      *)
(* threshold of 3, the counter grows by one and the circuit stays as it is; *)
(* if the queue holds fewer than 100 envelopes the batch is put back, in    *)
(* its order, in front of the queue; if it holds 100 or more the queue is   *)
(* left as it is and the envelopes of the batch are gone.                   *)
C25_FailureRequeuesBelowLimit ==
    [][ \A i \in 1..Len(inflight) :
          ((FlushNotOk(i, "sent") \/ FlushError(i)) /\ consecutiveFailures + 1 < 3) =>
             /\ consecutiveFailures' = consecutiveFailures + 1
             /\ isCircuitOpen' = isCircuitOpen
             /\ IF Len(eventQueue) < 100
                THEN eventQueue' = inflight[i].events \o eventQueue
                ELSE /\ eventQueue' = eventQueue
                     /\ Range(inflight[i].events) \cap Held' = {} ]_vars

\* two failed batches are back in the queue, a success has reset the counter,
\* and the batch of a third failure is lost
C25_Witness ==
    /\ last.op \in {"flushNotOk", "flushError"}
    /\ emitted >= 200
    /\ consecutiveFailures = 1
    /\ Len(eventQueue) >= 100
    /\ eventQueue[1].eventId = 51
    /\ eventQueue[51].eventId = 1
    /\ inflight = <<>>

(* C26: the circuit and the failure counter change only in a step that      *)
(* completes a flush and in resetCircuit() on an OPEN circuit; publish(),   *)
(* setAiEnabled(), the timer callback, destroy() and resetCircuit() on a    *)
(* CLOSED circuit leave both as they are.                                   *)
C26_OnlyCompletionsChangeCircuit ==
    [][ /\ (isCircuitOpen' # isCircuitOpen \/ consecutiveFailures' # consecutiveFailures) =>
              (FailureStep \/ SuccessStep \/ (isCircuitOpen /\ ResetCircuit))
        /\ ( \/ \E o \in Occurrences : Emit(o)
             \/ \E b \in BOOLEAN : SetAiEnabled(b)
             \/ TimerTick
             \/ Destroy
             \/ ~isCircuitOpen /\ ResetCircuit ) =>
              (isCircuitOpen' = isCircuitOpen /\ consecutiveFailures' = consecutiveFailures)
      ]_vars

\* resetCircuit() was called on a CLOSED circuit after a failure, and the
\* counter is still 1
C26_Witness ==
    /\ last.op = "resetCircuit"
    /\ ~last.open
    /\ ~isCircuitOpen
    /\ consecutiveFailures = 1

(* C27: in a streak of consecutive failed flushes the first failure writes  *)
(* a message to the console and every later failure of the streak, the one  *)
(* that opens the circuit and those of stale flushes after it included,     *)
(* writes nothing.                                                          *)
C27_OnlyFirstFailureLogs ==
    [][ FailureStep => (IF streak' = 1 THEN last'.log # <<>> ELSE last'.log = <<>>) ]_vars

(* C28: in every reachable state the circuit is OPEN exactly when the       *)
(* failure counter is at least 3; a CLOSED circuit has a counter of 0, 1 or *)
(* 2.                                                                       *)
C28_OpenIffCounterAtThreshold ==
    /\ isCircuitOpen <=> consecutiveFailures >= 3
    /\ ~isCircuitOpen => consecutiveFailures \in {0, 1, 2}

\* the circuit has opened at the third failure and a flush that was still in
\* flight has failed after that
C28_Witness ==
    /\ last.op \in {"flushNotOk", "flushError"}
    /\ last.open
    /\ isCircuitOpen
    /\ consecutiveFailures = 4

\* where the envelope with eventId n is: its positions in the queue and in the
\* batches of the suspended flushes
QueueSlots(n) == { k \in 1..Len(eventQueue) : eventQueue[k].eventId = n }

BatchSlots(n) ==
    UNION { { <<i, k>> : k \in { j \in 1..Len(inflight[i].events) :
                                   inflight[i].events[j].eventId = n } } :
            i \in 1..Len(inflight) }

(* C29: an accepted envelope is never duplicated inside the publisher: at   *)
(* every moment it is at no more than one position of the queue and of the  *)
(* batches of in-flight flushes taken together.                             *)
C29_NoDuplicateInPublisher ==
    \A n \in 1..emitted : Cardinality(QueueSlots(n)) + Cardinality(BatchSlots(n)) <= 1

\* a batch that failed twice is back in the queue while the flush of the
\* envelope accepted after it is in flight
C29_Witness ==
    /\ last.op \in {"flushNotOk", "flushError"}
    /\ consecutiveFailures = 2
    /\ Len(eventQueue) = 1
    /\ eventQueue[1].eventId = 1
    /\ Len(inflight) = 1
    /\ BatchSlots(2) = {<<1, 1>>}

----------------------------------------------------------------------------
(* SpecTracking: the page with the components that mount useEventTracking.  *)
(* A mount subscribes the hook's callback, an unmount calls the function    *)
(* subscribe() returned; emitHotelEvent calls the callbacks one after the   *)
(* other, and no timer callback or response is handled before it returns.   *)

Idle == ~dispatch.active

Mounted(c) == \E k \in 1..Len(callbacks) : callbacks[k].fn = HookOf(c)

\* the effect of useEventTracking runs in component c
Mount(c) == Idle /\ ~Mounted(c) /\ Subscribe(HookOf(c))

\* the cleanup of that effect
Unmount(r) == Idle /\ r \in 1..Len(closures) /\ Unsubscribe(r)

InitTracking ==
    /\ InitClient
    /\ InitEmitter
    /\ InitServer
    /\ CONFLUENT_ENABLED = TRUE
    /\ kafkaProducer = TRUE

NextTracking ==
    \/ \E c \in Components : Mount(c)
    \/ \E r \in 1..Len(closures) : Unmount(r)
    \/ \E o \in OneOccurrence : Dispatch(o)
    \/ Invoke
    \/ Return
    \/ DispatchReturns
    \/ Idle /\ TimerTick
    \/ Idle /\ \E i \in 1..Len(inflight) : FlushOk(i, "sent")
    \/ Idle /\ \E i \in 1..Len(inflight) : FlushDone(i)
    \/ \E d \in ClockSteps : AdvanceClock(d)

SpecTracking == InitTracking /\ [][NextTracking]_vars

(* C30: with several tracking hooks mounted, an emitted envelope is         *)
(* enqueued at most once: the publish() call of the second and of every     *)
(* later hook for the same emission leaves the queue alone and starts no    *)
(* flush, and no envelope is at two positions of the queue and the batches. *)
C30_SubscribersDoNotMultiplyEnvelopes ==
    /\ [][ (Invoke /\ Len(delivered) >= 1) => Dropped ]_vars
    /\ [](\A n \in 1..emitted : Cardinality(QueueSlots(n) \cup BatchSlots(n)) <= 1)

\* both hooks have been called for the second emission and the queue holds it
\* once
C30_Witness ==
    /\ ~dispatch.active
    /\ Len(delivered) = 2
    /\ delivered[1].fn # delivered[2].fn
    /\ delivered[1].eventId = 2
    /\ Cardinality(QueueSlots(2)) = 1
    /\ Len(eventQueue) = 1

====
